---- MODULE Spec2Model ----
(***************************************************************************)
(* A model of the gval expression language kernel (src/gval.go): the       *)
(* built-in languages as data, the operator functions they register, the   *)
(* package-level entry points Evaluate and Full, and the parser/evaluator  *)
(* that interprets a Language.                                             *)
(***************************************************************************)
EXTENDS Integers, Sequences, FiniteSets, TLC

\* full            the package-level default language (var full)
\* op              the operation that ran last
\* expr, param     its expression (a token stream) and parameter
\* opts            the extensions it was passed, by name
\* args            the operand values of an operator, the arguments of date()
\* sym, lname      the operator symbol and the language it was taken from
\* accepts         the layouts under which the host parses the date string
\* lang            the language the operation built or used
\* tree            the evaluator tree it parsed
\* ret             its result (val, err)
\* rightEvaluated  whether an infix node evaluated its right operand
\* tried           the layouts date() handed to the host, in order
\* extended        whether some earlier call was passed extensions
VARIABLES full, op, expr, param, opts, args, sym, lname, accepts,
          lang, tree, ret, rightEvaluated, tried, extended

vars == <<full, op, expr, param, opts, args, sym, lname, accepts,
          lang, tree, ret, rightEvaluated, tried, extended>>

(***************************************************************************)
(* Bounds of the model.                                                    *)
(***************************************************************************)
\* longest ordered sequence among the operand values
MaxListLen == 2
\* most extensions passed to one Evaluate / Full call
MaxOpts == 2
\* most layouts one date string is accepted by
MaxAccepts == 2
\* most arguments passed to date()
MaxArgs == 2

(***************************************************************************)
(* Values: interface{} as a tagged record.  t is the dynamic type, n the   *)
(* number (a float64 or an int counted in halves, so 3 is 1.5; a bool as   *)
(* 0/1; a time as the index of the layout that parsed it), s the           *)
(* characters of a string, l the elements of a []interface{}.              *)
(***************************************************************************)
Nil == [t |-> "nil", n |-> 0, s |-> <<>>, l |-> <<>>]
Bool(b) == [t |-> "bool", n |-> IF b THEN 1 ELSE 0, s |-> <<>>, l |-> <<>>]
Float(h) == [t |-> "float64", n |-> h, s |-> <<>>, l |-> <<>>]
Num(i) == Float(2 * i)
GoInt(i) == [t |-> "int", n |-> 2 * i, s |-> <<>>, l |-> <<>>]
Str(cs) == [t |-> "string", n |-> 0, s |-> cs, l |-> <<>>]
List(xs) == [t |-> "list", n |-> 0, s |-> <<>>, l |-> xs]
Time(layout) == [t |-> "time", n |-> layout, s |-> <<>>, l |-> <<>>]

\* (value, error): err = "" is Go's nil error
Ok(v) == [val |-> v, err |-> ""]
Fail(e) == [val |-> Nil, err |-> e]

\* Go's a == false, a == true, a == nil on an interface{} value
IsFalse(a) == a.t = "bool" /\ a.n = 0
IsTrue(a) == a.t = "bool" /\ a.n = 1
IsNil(a) == a.t = "nil"

\* reflect.DeepEqual: same dynamic type and structurally equal contents
DeepEqual(a, b) == a.t = b.t /\ a.n = b.n /\ a.s = b.s /\ a.l = b.l

(***************************************************************************)
(* Value coercions (spec 4.B).                                             *)
(***************************************************************************)
Digits == <<"0", "1", "2", "3", "4", "5", "6", "7", "8", "9">>
IsDigit(c) == \E i \in 1..10 : Digits[i] = c
DigitVal(c) == (CHOOSE i \in 1..10 : Digits[i] = c) - 1

RECURSIVE DecimalValue(_)
DecimalValue(cs) ==
    IF cs = <<>> THEN 0
    ELSE 10 * DecimalValue(SubSeq(cs, 1, Len(cs) - 1)) + DigitVal(cs[Len(cs)])

\* a string parses as a number iff it is a non-empty run of decimal digits,
\* optionally signed (the strings of the model hold no other numeric form)
IsDecimal(cs) ==
    LET body == IF cs # <<>> /\ cs[1] = "-" THEN Tail(cs) ELSE cs
    IN  body # <<>> /\ \A i \in 1..Len(body) : IsDigit(body[i])
ParseDecimal(cs) ==
    IF cs[1] = "-" THEN -(2 * DecimalValue(Tail(cs))) ELSE 2 * DecimalValue(cs)

\* toNumber(v) -> (f64, ok), the number in halves
convertToFloat(v) ==
    CASE v.t \in {"float64", "int"} -> [f |-> v.n, ok |-> TRUE]
      [] v.t = "bool" -> [f |-> 2 * v.n, ok |-> TRUE]
      [] v.t = "string" /\ IsDecimal(v.s) -> [f |-> ParseDecimal(v.s), ok |-> TRUE]
      [] OTHER -> [f |-> 0, ok |-> FALSE]

\* toBool(v) -> (bool, ok)
convertToBool(v) ==
    CASE v.t = "bool" -> [b |-> v.n = 1, ok |-> TRUE]
      [] v.t \in {"float64", "int"} -> [b |-> v.n # 0, ok |-> TRUE]
      [] v.t = "string" /\ v.s \in {<<"t", "r", "u", "e">>, <<"T", "R", "U", "E">>} ->
            [b |-> TRUE, ok |-> TRUE]
      [] v.t = "string" /\ v.s \in {<<"f", "a", "l", "s", "e">>, <<"F", "A", "L", "S", "E">>} ->
            [b |-> FALSE, ok |-> TRUE]
      [] OTHER -> [b |-> FALSE, ok |-> FALSE]

\* int64(f) of a float64 in halves: truncation toward zero
Int64(h) == IF h >= 0 THEN h \div 2 ELSE -((-h) \div 2)

(***************************************************************************)
(* The operator functions the built-in languages register.                 *)
(***************************************************************************)
\* PrefixOperator("-", ...) of base
PrefixMinus(v) ==
    LET c == convertToFloat(v)
    IN  IF ~c.ok THEN Fail("unexpected type, expected number") ELSE Ok(Float(-c.f))

\* a complement that negates instead: float64(-int64(i))
PrefixBitNotNegating(v) ==
    LET c == convertToFloat(v)
    IN  IF ~c.ok THEN Fail("unexpected type, expected number")
        ELSE Ok(Num(-Int64(c.f)))

\* PrefixOperator("~", ...) of bitmask: float64(^int64(i)), and ^x = -x - 1
PrefixBitNot(v) ==
    LET c == convertToFloat(v)
    IN  IF ~c.ok THEN Fail("unexpected type, expected number")
        ELSE Ok(Num(-Int64(c.f) - 1))

\* PrefixOperator("!", ...) of propositionalLogic
PrefixNot(v) ==
    LET c == convertToBool(v)
    IN  IF ~c.ok THEN Fail("unexpected type, expected bool") ELSE Ok(Bool(~c.b))

\* for _, x := range aa { if reflect.DeepEqual(x, b) { return true } }; return false
RECURSIVE RangeAnyEqual(_, _, _)
RangeAnyEqual(aa, i, b) ==
    IF i > Len(aa) THEN FALSE
    ELSE IF DeepEqual(aa[i], b) THEN TRUE
    ELSE RangeAnyEqual(aa, i + 1, b)

\* for _, x := range aa { if !reflect.DeepEqual(x, b) { return true } }; return false
RECURSIVE RangeAnyDiffers(_, _, _)
RangeAnyDiffers(aa, i, b) ==
    IF i > Len(aa) THEN FALSE
    ELSE IF ~DeepEqual(aa[i], b) THEN TRUE
    ELSE RangeAnyDiffers(aa, i + 1, b)

\* an equality without the range over the elements of a
BaseEqPlain(a, b) == Ok(Bool(DeepEqual(a, b)))

\* InfixOperator("==", ...) of base
BaseEq(a, b) ==
    IF a.t # "list" THEN Ok(Bool(DeepEqual(a, b)))
    ELSE Ok(Bool(RangeAnyEqual(a.l, 1, b)))

\* InfixOperator("!=", ...) of base
BaseNe(a, b) ==
    IF a.t # "list" THEN Ok(Bool(~DeepEqual(a, b)))
    ELSE Ok(Bool(RangeAnyDiffers(a.l, 1, b)))

\* a predicate that stops on false as well: a != nil alone
ShortNullCoalesceNilOnly(a) == [res |-> a, stop |-> ~IsNil(a)]

\* InfixShortCircuit("??", ...) of full: (result, stop)
ShortNullCoalesce(a) == [res |-> a, stop |-> ~IsFalse(a) /\ ~IsNil(a)]

\* InfixOperator("??", ...) of full
NullCoalesce(a, b) == IF IsFalse(a) \/ IsNil(a) THEN Ok(b) ELSE Ok(a)

\* a predicate with the test inverted: a == true
ShortAndInverted(a) == [res |-> Bool(FALSE), stop |-> IsTrue(a)]

\* InfixShortCircuit("&&", ...) of propositionalLogic
ShortAnd(a) == [res |-> Bool(FALSE), stop |-> IsFalse(a)]

\* InfixShortCircuit("||", ...) of propositionalLogic
ShortOr(a) == [res |-> Bool(TRUE), stop |-> IsTrue(a)]

\* a in b: b is an ordered sequence with an element structurally equal to a
inArray(a, b) ==
    IF b.t # "list" THEN Ok(Bool(FALSE))
    ELSE Ok(Bool(\E i \in 1..Len(b.l) : DeepEqual(b.l[i], a)))

\* The func(a, b float64) literals of arithmetic, on numbers in halves.  The
\* product of two halves is exact when it is whole; the evaluators of
\* / % ** and of bitmask are registered but their arithmetic is not modelled.
ApplyNumber(fn, a, b) ==
    CASE fn = "add" -> Ok(Float(a + b))
      [] fn = "sub" -> Ok(Float(a - b))
      [] fn = "mul" /\ (a * b) % 2 = 0 -> Ok(Float((a * b) \div 2))
      [] fn = "gt" -> Ok(Bool(a > b))
      [] fn = "ge" -> Ok(Bool(a >= b))
      [] fn = "lt" -> Ok(Bool(a < b))
      [] fn = "le" -> Ok(Bool(a <= b))
      [] fn = "numEq" -> Ok(Bool(a = b))
      [] fn = "numNe" -> Ok(Bool(a # b))

\* The func(a, b string) literals of text; lexical order is not modelled.
ApplyText(fn, a, b) ==
    CASE fn = "concat" -> Ok(Str(a \o b))

\* The func(a, b bool) literals of propositionalLogic
ApplyBool(fn, a, b) ==
    CASE fn = "and" -> Ok(Bool(a /\ b))
      [] fn = "or" -> Ok(Bool(a \/ b))
      [] fn = "boolEq" -> Ok(Bool(a = b))
      [] fn = "boolNe" -> Ok(Bool(a # b))

\* The func(a, b interface{}) literals
ApplyArbitrary(fn, a, b) ==
    CASE fn = "baseEq" -> BaseEq(a, b)
      [] fn = "baseNe" -> BaseNe(a, b)
      [] fn = "nullCoalesce" -> NullCoalesce(a, b)
      [] fn = "inArray" -> inArray(a, b)
      [] fn = "extFirst" -> Ok(a)
      [] fn = "extSecond" -> Ok(b)

ApplyShortCircuit(p, a) ==
    CASE p = "shortNullCoalesce" -> ShortNullCoalesce(a)
      [] p = "shortAnd" -> ShortAnd(a)
      [] p = "shortOr" -> ShortOr(a)
      [] p = "extNever" -> [res |-> a, stop |-> FALSE]

ApplyPrefix(id, v) ==
    CASE id = "minus" -> PrefixMinus(v)
      [] id = "bitNot" -> PrefixBitNot(v)
      [] id = "not" -> PrefixNot(v)

(***************************************************************************)
(* date(): the layouts in the order of the array literal.  Whether         *)
(* time.ParseInLocation accepts the string under a layout is the host's    *)
(* answer: acc is the set of layouts (by index) that accept it.            *)
(***************************************************************************)
Layouts == <<"ANSIC", "UnixDate", "RubyDate", "Kitchen", "RFC3339", "RFC3339Nano",
             "2006-01-02", "2006-01-02 15:04", "2006-01-02 15:04:05",
             "2006-01-02 15:04:05-07:00", "2006-01-02T15Z0700",
             "2006-01-02T15:04Z0700", "2006-01-02T15:04:05Z0700",
             "2006-01-02T15:04:05.999999999Z0700">>

\* a loop that keeps the last layout that parses instead of returning at the first
RECURSIVE dateRangeLast(_, _, _)
dateRangeLast(i, acc, done) ==
    IF i > Len(Layouts)
    THEN IF acc = {} THEN [val |-> Nil, err |-> "date() could not parse", tried |-> done]
         ELSE [val |-> Time(CHOOSE m \in acc : \A k \in acc : k <= m), err |-> "",
               tried |-> done]
    ELSE dateRangeLast(i + 1, acc, Append(done, i))

\* for _, format := range [...]string{...}: i is the next layout, done the
\* layouts already handed to ParseInLocation
RECURSIVE dateRange(_, _, _)
dateRange(i, acc, done) ==
    IF i > Len(Layouts) THEN [val |-> Nil, err |-> "date() could not parse", tried |-> done]
    ELSE IF i \in acc THEN [val |-> Time(i), err |-> "", tried |-> Append(done, i)]
    ELSE dateRange(i + 1, acc, Append(done, i))

\* Function("date", ...) of full
date(arguments, acc) ==
    IF Len(arguments) # 1
    THEN [val |-> Nil, err |-> "date() expects exactly one string argument", tried |-> <<>>]
    ELSE IF arguments[1].t # "string"
    THEN [val |-> Nil, err |-> "date() expects exactly one string argument", tried |-> <<>>]
    ELSE dateRange(1, acc, <<>>)

(***************************************************************************)
(* The Language value (spec 3, 4.C): dispatch tables keyed by strings.     *)
(*   prefix   token kind or literal -> handler                             *)
(*   infix    operator symbol -> the evaluators registered for it, one per *)
(*            operand family, the latest registration last                 *)
(*   short    operator symbol -> short-circuit predicate                   *)
(*   postfix  operator symbol -> handler                                   *)
(*   prec     operator symbol -> precedence                                *)
(*   symbols  the operator lexemes                                         *)
(***************************************************************************)
NoMap == <<>>
EmptyLanguage ==
    [prefix |-> NoMap, infix |-> NoMap, short |-> NoMap, postfix |-> NoMap,
     prec |-> NoMap, symbols |-> {}]

Handler(kind, id, v) == [kind |-> kind, id |-> id, val |-> v]
Infix(family, fn) == [family |-> family, fn |-> fn]

PrefixExtension(key, id) ==
    [EmptyLanguage EXCEPT !.prefix = key :> Handler("extension", id, Nil)]
PrefixMetaPrefix(key, id) ==
    [EmptyLanguage EXCEPT !.prefix = key :> Handler("meta", id, Nil)]
PrefixOperator(s, id) ==
    [EmptyLanguage EXCEPT !.prefix = s :> Handler("operator", id, Nil)]
Constant(name, v) ==
    [EmptyLanguage EXCEPT !.prefix = name :> Handler("constant", name, v)]
Function(name, id) ==
    [EmptyLanguage EXCEPT !.prefix = name :> Handler("function", id, Nil)]
InfixOperator(s, fn) ==
    [EmptyLanguage EXCEPT !.infix = s :> <<Infix("arbitrary", fn)>>, !.symbols = {s}]
InfixNumberOperator(s, fn) ==
    [EmptyLanguage EXCEPT !.infix = s :> <<Infix("number", fn)>>, !.symbols = {s}]
InfixTextOperator(s, fn) ==
    [EmptyLanguage EXCEPT !.infix = s :> <<Infix("text", fn)>>, !.symbols = {s}]
InfixBoolOperator(s, fn) ==
    [EmptyLanguage EXCEPT !.infix = s :> <<Infix("bool", fn)>>, !.symbols = {s}]
InfixEvalOperator(s, fn) ==
    [EmptyLanguage EXCEPT !.infix = s :> <<Infix("eval", fn)>>, !.symbols = {s}]
InfixShortCircuit(s, p) ==
    [EmptyLanguage EXCEPT !.short = s :> p, !.symbols = {s}]
PostfixOperator(s, id) ==
    [EmptyLanguage EXCEPT !.postfix = s :> id, !.symbols = {s}]
Precedence(s, n) ==
    [EmptyLanguage EXCEPT !.prec = s :> n, !.symbols = {s}]

\* the evaluators of one symbol: an evaluator of the later language replaces
\* the one registered for the same operand family and is dispatched first
RECURSIVE MergeEvaluators(_, _)
MergeEvaluators(old, new) ==
    IF new = <<>> THEN old
    ELSE MergeEvaluators(
            SelectSeq(old, LAMBDA e : e.family # Head(new).family) \o <<Head(new)>>,
            Tail(new))

EvaluatorsOf(m, s) == IF s \in DOMAIN m THEN m[s] ELSE <<>>

\* l1 (+) l2: per key the entry of l2 overrides that of l1
Union(l1, l2) ==
    [prefix  |-> l2.prefix @@ l1.prefix,
     infix   |-> [s \in (DOMAIN l1.infix) \cup (DOMAIN l2.infix) |->
                     MergeEvaluators(EvaluatorsOf(l1.infix, s), EvaluatorsOf(l2.infix, s))],
     short   |-> l2.short @@ l1.short,
     postfix |-> l2.postfix @@ l1.postfix,
     prec    |-> l2.prec @@ l1.prec,
     symbols |-> l1.symbols \cup l2.symbols]

\* NewLanguage(bases...): folds the parts left to right
RECURSIVE FoldLanguages(_, _)
FoldLanguages(l, parts) ==
    IF parts = <<>> THEN l ELSE FoldLanguages(Union(l, Head(parts)), Tail(parts))
NewLanguage(parts) == FoldLanguages(EmptyLanguage, parts)

(***************************************************************************)
(* The built-in languages, entry by entry in the order of the source.      *)
(***************************************************************************)
\* a table in which * binds weaker than +
basePrecedencesWeakTimes ==
    <<Precedence("??", 0),
      Precedence("||", 20), Precedence("&&", 21),
      Precedence("==", 40), Precedence("!=", 40), Precedence(">", 40),
      Precedence(">=", 40), Precedence("<", 40), Precedence("<=", 40),
      Precedence("=~", 40), Precedence("!~", 40), Precedence("in", 40),
      Precedence("^", 60), Precedence("&", 60), Precedence("|", 60),
      Precedence("<<", 90), Precedence(">>", 90),
      Precedence("+", 120), Precedence("-", 120),
      Precedence("*", 110), Precedence("/", 150), Precedence("%", 150),
      Precedence("**", 200)>>

\* the Precedence(...) entries of base
basePrecedences ==
    <<Precedence("??", 0),
      Precedence("||", 20), Precedence("&&", 21),
      Precedence("==", 40), Precedence("!=", 40), Precedence(">", 40),
      Precedence(">=", 40), Precedence("<", 40), Precedence("<=", 40),
      Precedence("=~", 40), Precedence("!~", 40), Precedence("in", 40),
      Precedence("^", 60), Precedence("&", 60), Precedence("|", 60),
      Precedence("<<", 90), Precedence(">>", 90),
      Precedence("+", 120), Precedence("-", 120),
      Precedence("*", 150), Precedence("/", 150), Precedence("%", 150),
      Precedence("**", 200)>>

base ==
    NewLanguage(
      <<PrefixExtension("Int", "parseNumber"),
        PrefixExtension("Float", "parseNumber"),
        PrefixOperator("-", "minus"),
        PrefixExtension("String", "parseString"),
        PrefixExtension("Char", "parseString"),
        PrefixExtension("RawString", "parseString"),
        Constant("true", Bool(TRUE)),
        Constant("false", Bool(FALSE)),
        InfixOperator("==", "baseEq"),
        InfixOperator("!=", "baseNe"),
        PrefixExtension("(", "parseParentheses")>>
      \o basePrecedences
      \o <<PrefixMetaPrefix("Ident", "parseIdent")>>)

arithmetic ==
    NewLanguage(
      <<InfixNumberOperator("+", "add"),
        InfixNumberOperator("-", "sub"),
        InfixNumberOperator("*", "mul"),
        InfixNumberOperator("/", "div"),
        InfixNumberOperator("%", "mod"),
        InfixNumberOperator("**", "pow"),
        InfixNumberOperator(">", "gt"),
        InfixNumberOperator(">=", "ge"),
        InfixNumberOperator("<", "lt"),
        InfixNumberOperator("<=", "le"),
        InfixNumberOperator("==", "numEq"),
        InfixNumberOperator("!=", "numNe"),
        base>>)

bitmask ==
    NewLanguage(
      <<InfixNumberOperator("^", "xor"),
        InfixNumberOperator("&", "bitAnd"),
        InfixNumberOperator("|", "bitOr"),
        InfixNumberOperator("<<", "shl"),
        InfixNumberOperator(">>", "shr"),
        PrefixOperator("~", "bitNot")>>)

text ==
    NewLanguage(
      <<InfixTextOperator("+", "concat"),
        InfixTextOperator("<", "textLt"),
        InfixTextOperator("<=", "textLe"),
        InfixTextOperator(">", "textGt"),
        InfixTextOperator(">=", "textGe"),
        InfixEvalOperator("=~", "regEx"),
        InfixEvalOperator("!~", "notRegEx"),
        base>>)

propositionalLogic ==
    NewLanguage(
      <<PrefixOperator("!", "not"),
        InfixShortCircuit("&&", "shortAnd"),
        InfixBoolOperator("&&", "and"),
        InfixShortCircuit("||", "shortOr"),
        InfixBoolOperator("||", "or"),
        InfixBoolOperator("==", "boolEq"),
        InfixBoolOperator("!=", "boolNe"),
        base>>)

ljson ==
    NewLanguage(
      <<PrefixExtension("[", "parseJSONArray"),
        PrefixExtension("{", "parseJSONObject")>>)

\* a union that leaves text out
fullLanguageWithoutText ==
    NewLanguage(
      <<arithmetic, bitmask, propositionalLogic, ljson,
        InfixOperator("in", "inArray"),
        InfixShortCircuit("??", "shortNullCoalesce"),
        InfixOperator("??", "nullCoalesce"),
        PostfixOperator("?", "parseIf"),
        Function("date", "date")>>)

\* var full = NewLanguage(arithmetic, bitmask, text, propositionalLogic, ljson, ...)
fullLanguage ==
    NewLanguage(
      <<arithmetic, bitmask, text, propositionalLogic, ljson,
        InfixOperator("in", "inArray"),
        InfixShortCircuit("??", "shortNullCoalesce"),
        InfixOperator("??", "nullCoalesce"),
        PostfixOperator("?", "parseIf"),
        Function("date", "date")>>)

\* Arithmetic(), Bitmask(), Text(), PropositionalLogic(), JSON(), Base()
BuiltIn(name) ==
    CASE name = "Arithmetic" -> arithmetic
      [] name = "Bitmask" -> bitmask
      [] name = "Text" -> text
      [] name = "PropositionalLogic" -> propositionalLogic
      [] name = "JSON" -> ljson
      [] name = "Base" -> base

(***************************************************************************)
(* Tokens (spec 3, 4.A), after the operator lexemes have been assembled:   *)
(* sym is the literal of an identifier or operator, text the characters    *)
(* of a number or string literal.                                          *)
(***************************************************************************)
IntTok(cs) == [kind |-> "Int", sym |-> "", text |-> cs]
CharTok(cs) == [kind |-> "Char", sym |-> "", text |-> cs]
Ident(name) == [kind |-> "Ident", sym |-> name, text |-> <<>>]
Punct(s) == [kind |-> "Punct", sym |-> s, text |-> <<>>]

(***************************************************************************)
(* Evaluator tree (spec 3, 4.E).  An infix node carries the evaluators and *)
(* the short-circuit predicate its symbol had in the language that parsed  *)
(* it.                                                                     *)
(***************************************************************************)
Node(k, o, v, kids, ev, sc) ==
    [k |-> k, op |-> o, v |-> v, kids |-> kids, ev |-> ev, sc |-> sc]
ConstNode(v) == Node("const", "", v, <<>>, <<>>, "")
VarNode(name) == Node("var", name, Nil, <<>>, <<>>, "")
PrefixNode(id, x) == Node("prefix", id, Nil, <<x>>, <<>>, "")
InfixNode(l, s, a, b) ==
    Node("infix", s, Nil, <<a, b>>, l.infix[s],
         IF s \in DOMAIN l.short THEN l.short[s] ELSE "")
TernaryNode(c, a, b) == Node("ternary", "?", Nil, <<c, a, b>>, <<>>, "")

Parsed(node, pos) == [node |-> node, pos |-> pos, err |-> ""]
ParseError(e, pos) == [node |-> ConstNode(Nil), pos |-> pos, err |-> e]

PrecedenceOf(l, s) == IF s \in DOMAIN l.prec THEN l.prec[s] ELSE 0
IsLiteral(tok) == tok.kind \in {"Int", "Float", "String", "Char", "RawString"}
IsSymbol(tok) == tok.kind \in {"Punct", "Ident"}

(***************************************************************************)
(* The parser (spec 4.D): precedence climbing driven by the tables of l.   *)
(* JSON literals, selector suffixes and call suffixes are not modelled.    *)
(***************************************************************************)
RECURSIVE parseExpression(_, _, _, _)
RECURSIVE parseOperand(_, _, _)
RECURSIVE parseOperators(_, _, _, _, _)

\* nud: the prefix handler of the token at pos
parseOperand(l, toks, pos) ==
    IF pos > Len(toks) THEN ParseError("SyntaxError", pos)
    ELSE LET tok == toks[pos] IN
    CASE IsLiteral(tok) ->
            IF tok.kind \notin DOMAIN l.prefix THEN ParseError("SyntaxError", pos)
            ELSE IF l.prefix[tok.kind].id = "parseNumber"
            THEN Parsed(ConstNode(Float(ParseDecimal(tok.text))), pos + 1)
            ELSE Parsed(ConstNode(Str(tok.text)), pos + 1)
      [] tok.kind = "Punct" ->
            IF tok.sym \notin DOMAIN l.prefix THEN ParseError("SyntaxError", pos)
            ELSE IF l.prefix[tok.sym].kind = "operator"
            THEN LET x == parseOperand(l, toks, pos + 1) IN
                 IF x.err # "" THEN x
                 ELSE Parsed(PrefixNode(l.prefix[tok.sym].id, x.node), x.pos)
            ELSE \* parseParentheses
                 LET x == parseExpression(l, toks, pos + 1, 0) IN
                 IF x.err # "" THEN x
                 ELSE IF x.pos <= Len(toks) /\ toks[x.pos] = Punct(")")
                 THEN Parsed(x.node, x.pos + 1)
                 ELSE ParseError("SyntaxError", x.pos)
      [] tok.kind = "Ident" ->
            IF tok.sym \in DOMAIN l.prefix /\ l.prefix[tok.sym].kind = "constant"
            THEN Parsed(ConstNode(l.prefix[tok.sym].val), pos + 1)
            ELSE IF tok.sym \notin DOMAIN l.prefix /\ "Ident" \in DOMAIN l.prefix
            THEN Parsed(VarNode(tok.sym), pos + 1)
            ELSE ParseError("SyntaxError", pos)

\* led loop: consume the operators at pos that bind at least as tight as minPrec
parseOperators(l, toks, left, pos, minPrec) ==
    IF pos > Len(toks) \/ ~IsSymbol(toks[pos]) THEN Parsed(left, pos)
    ELSE LET s == toks[pos].sym IN
    IF PrecedenceOf(l, s) < minPrec THEN Parsed(left, pos)
    ELSE IF s \in DOMAIN l.postfix
    THEN \* parseIf: then-branch, ":", else-branch at the ternary's precedence
         LET a == parseExpression(l, toks, pos + 1, 0) IN
         IF a.err # "" THEN a
         ELSE IF ~(a.pos <= Len(toks) /\ toks[a.pos] = Punct(":"))
         THEN ParseError("SyntaxError", a.pos)
         ELSE LET b == parseExpression(l, toks, a.pos + 1, PrecedenceOf(l, s)) IN
              IF b.err # "" THEN b
              ELSE parseOperators(l, toks, TernaryNode(left, a.node, b.node), b.pos, minPrec)
    ELSE IF s \in DOMAIN l.infix
    THEN LET p == PrecedenceOf(l, s)
             r == parseExpression(l, toks, pos + 1, IF s = "**" THEN p ELSE p + 1)
         IN  IF r.err # "" THEN r
             ELSE parseOperators(l, toks, InfixNode(l, s, left, r.node), r.pos, minPrec)
    ELSE Parsed(left, pos)

parseExpression(l, toks, pos, minPrec) ==
    LET x == parseOperand(l, toks, pos) IN
    IF x.err # "" THEN x ELSE parseOperators(l, toks, x.node, x.pos, minPrec)

\* Language.NewEvaluable(expression): the whole token stream must be consumed
NewEvaluable(l, toks) ==
    LET x == parseExpression(l, toks, 1, 0) IN
    IF x.err # "" THEN x
    ELSE IF x.pos <= Len(toks)
    THEN ParseError(IF toks[x.pos].sym \in l.symbols /\ toks[x.pos].sym \notin DOMAIN l.infix
                    THEN "UnknownOperator" ELSE "SyntaxError", x.pos)
    ELSE x

(***************************************************************************)
(* Evaluation (spec 4.E).                                                  *)
(***************************************************************************)
\* the evaluators of a symbol, the latest first: the first whose operand
\* family fits the two values decides; none fitting is a TypeError
RECURSIVE Dispatch(_, _, _, _)
Dispatch(ev, i, a, b) ==
    IF i = 0 THEN Fail("TypeError")
    ELSE LET e == ev[i]
             fa == convertToFloat(a)
             fb == convertToFloat(b)
             ba == convertToBool(a)
             bb == convertToBool(b)
         IN  CASE e.family = "arbitrary" -> ApplyArbitrary(e.fn, a, b)
               [] e.family = "number" ->
                    IF fa.ok /\ fb.ok THEN ApplyNumber(e.fn, fa.f, fb.f)
                    ELSE Dispatch(ev, i - 1, a, b)
               [] e.family = "text" ->
                    IF a.t = "string" /\ b.t = "string" THEN ApplyText(e.fn, a.s, b.s)
                    ELSE Dispatch(ev, i - 1, a, b)
               [] e.family = "bool" ->
                    IF ba.ok /\ bb.ok THEN ApplyBool(e.fn, ba.b, bb.b)
                    ELSE Dispatch(ev, i - 1, a, b)

ApplyInfix(ev, a, b) == Dispatch(ev, Len(ev), a, b)

\* InfixOp node, the left operand already evaluated to a: rr is the outcome
\* of evaluating the right operand, read only when that operand is evaluated.
\* right tells whether it was.
InfixOpEval(ev, sc, a, rr) ==
    IF sc # "" /\ ApplyShortCircuit(sc, a).stop
    THEN [val |-> ApplyShortCircuit(sc, a).res, err |-> "", right |-> FALSE]
    ELSE IF rr.err # "" THEN [val |-> Nil, err |-> rr.err, right |-> TRUE]
    ELSE [val |-> ApplyInfix(ev, a, rr.val).val, err |-> ApplyInfix(ev, a, rr.val).err,
          right |-> TRUE]

\* selector of one member against the parameter mapping: absent is nil
Lookup(p, name) == IF name \in DOMAIN p THEN Ok(p[name]) ELSE Ok(Nil)

RECURSIVE EvalNode(_, _)
EvalNode(node, p) ==
    CASE node.k = "const" -> Ok(node.v)
      [] node.k = "var" -> Lookup(p, node.op)
      [] node.k = "prefix" ->
            LET x == EvalNode(node.kids[1], p) IN
            IF x.err # "" THEN x ELSE ApplyPrefix(node.op, x.val)
      [] node.k = "infix" ->
            LET a == EvalNode(node.kids[1], p) IN
            IF a.err # "" THEN a
            ELSE LET r == InfixOpEval(node.ev, node.sc, a.val, EvalNode(node.kids[2], p))
                 IN  [val |-> r.val, err |-> r.err]
      [] node.k = "ternary" ->
            LET c == EvalNode(node.kids[1], p) IN
            IF c.err # "" THEN c
            ELSE IF ~convertToBool(c.val).ok THEN Fail("TypeError")
            ELSE IF convertToBool(c.val).b THEN EvalNode(node.kids[2], p)
            ELSE EvalNode(node.kids[3], p)

\* Language.Evaluate(expression, parameter): parse, then evaluate
LanguageEvaluate(l, toks, p) ==
    LET x == NewEvaluable(l, toks) IN
    IF x.err # "" THEN Fail(x.err) ELSE EvalNode(x.node, p)

(***************************************************************************)
(* Inputs.                                                                 *)
(***************************************************************************)
\* values that occur as elements of ordered sequences
Elements ==
    {Nil, Bool(FALSE), Num(1), Num(2), List(<<Num(1)>>)}

RECURSIVE SeqsUpTo(_, _)
SeqsUpTo(S, n) ==
    IF n = 0 THEN {<<>>}
    ELSE LET shorter == SeqsUpTo(S, n - 1)
         IN  shorter \cup {Append(q, x) : q \in shorter, x \in S}

Atoms ==
    {Nil, Bool(FALSE), Bool(TRUE), Num(0), Num(1), Num(2), Float(3), Float(-5),
     GoInt(1), Str(<<>>), Str(<<"1">>), Str(<<"h", "i", " ">>), Str(<<"A", "d", "a">>),
     Str(<<"t", "r", "u", "e">>), Time(7)}

Values == Atoms \cup {List(q) : q \in SeqsUpTo(Elements, MaxListLen)}

\* right operands
RightValues == Elements \cup {Bool(TRUE), Str(<<"A", "d", "a">>), Num(0), List(<<>>)}

\* the extensions a caller passes, by name
ExtensionNames == {"plusFirst", "plusSecond", "trueIsOne", "weakTimes"}
Extension(name) ==
    CASE name = "plusFirst" -> InfixOperator("+", "extFirst")
      [] name = "plusSecond" -> InfixOperator("+", "extSecond")
      [] name = "trueIsOne" -> Constant("true", Num(1))
      [] name = "weakTimes" -> Precedence("*", 100)
Extensions(names) == [i \in 1..Len(names) |-> Extension(names[i])]
OptInputs == SeqsUpTo(ExtensionNames, MaxOpts)

\* the token of an operator symbol: "in" is scanned as an identifier
OpTok(s) == IF s = "in" THEN Ident(s) ELSE Punct(s)

NumberToks == {IntTok(<<"1">>), IntTok(<<"2">>), IntTok(<<"3">>)}
OperandToks ==
    {IntTok(<<"1">>), IntTok(<<"2">>), CharTok(<<"h", "i", " ">>), CharTok(<<"A", "d", "a">>),
     Ident("true"), Ident("x")}
\* operators whose evaluators the model computes on every operand above
EvaluatedOps == {"+", "-", "*", "==", "!=", "&&", "||", "??", "in"}
ExprOps == {"+", "*", "==", "&&", "||", "??", "in"}
ArithmeticOps == {"+", "-", "*"}

ExprInputs ==
    {<<a, OpTok(o), b>> : a \in OperandToks, o \in ExprOps, b \in OperandToks}
    \cup {<<IntTok(<<"1">>), Punct(o1), b, Punct(o2), IntTok(<<"3">>)>> :
            b \in NumberToks, o1 \in ArithmeticOps, o2 \in ArithmeticOps}
    \cup {<<Punct(o), a>> : o \in {"-", "~", "!"}, a \in OperandToks}
    \cup {<<Punct("("), IntTok(<<"1">>), Punct("+"), IntTok(<<"2">>), Punct(")"),
            Punct("*"), IntTok(<<"3">>)>>,
          <<Ident("x"), Punct("=="), CharTok(<<"A", "d", "a">>), Punct("?"),
            CharTok(<<"h", "i", " ">>), Punct("+"), Ident("x"), Punct(":"),
            CharTok(<<"h", "i">>)>>,
          <<IntTok(<<"1">>), Punct("+")>>,
          <<IntTok(<<"1">>), IntTok(<<"2">>)>>,
          <<>>}

ParamInputs ==
    {NoMap, ("x" :> Str(<<"A", "d", "a">>)) @@ ("y" :> List(<<Num(1), Num(2)>>))}

LanguageNames == {"Base", "Arithmetic", "Text", "PropositionalLogic", "Full"}
DateArgs == {Str(<<"2", "0", "2", "1">>), Num(1), Nil}
LayoutSets == {acc \in SUBSET (1..Len(Layouts)) : Cardinality(acc) <= MaxAccepts}

(***************************************************************************)
(* The package-level entry points and the operations of the state machine. *)
(***************************************************************************)
\* func Full(extensions ...Language) Language
Full(extensions) ==
    IF Len(extensions) = 0 THEN full
    ELSE NewLanguage(<<full>> \o extensions)

\* the language a built-in accessor returns
LanguageNamed(name) == IF name = "Full" THEN Full(<<>>) ELSE BuiltIn(name)

Init ==
    /\ full = fullLanguage
    /\ op = "idle"
    /\ expr = <<>>
    /\ param = NoMap
    /\ opts = <<>>
    /\ args = <<>>
    /\ sym = ""
    /\ lname = ""
    /\ accepts = {}
    /\ lang = EmptyLanguage
    /\ tree = ConstNode(Nil)
    /\ ret = Ok(Nil)
    /\ rightEvaluated = FALSE
    /\ tried = <<>>
    /\ extended = FALSE

\* an Evaluate that puts the default language after the extensions
EvaluatePrepending(expression, parameter, names) ==
    LET l == IF Len(names) > 0
             THEN NewLanguage(Extensions(names) \o <<full>>)
             ELSE full
    IN  /\ op = "idle"
        /\ op' = "Evaluate"
        /\ expr' = expression
        /\ param' = parameter
        /\ opts' = names
        /\ lang' = l
        /\ tree' = NewEvaluable(l, expression).node
        /\ ret' = LanguageEvaluate(l, expression, parameter)
        /\ extended' = (extended \/ Len(names) > 0)
        /\ UNCHANGED <<full, args, sym, lname, accepts, rightEvaluated, tried>>

\* an Evaluate that keeps the language it built as the default: full = l
EvaluateStoring(expression, parameter, names) ==
    LET l == IF Len(names) > 0
             THEN NewLanguage(<<full>> \o Extensions(names))
             ELSE full
    IN  /\ op = "idle"
        /\ op' = "Evaluate"
        /\ expr' = expression
        /\ param' = parameter
        /\ opts' = names
        /\ lang' = l
        /\ tree' = NewEvaluable(l, expression).node
        /\ ret' = LanguageEvaluate(l, expression, parameter)
        /\ extended' = (extended \/ Len(names) > 0)
        /\ full' = l
        /\ UNCHANGED <<args, sym, lname, accepts, rightEvaluated, tried>>

\* func Evaluate(expression string, parameter interface{}, opts ...Language)
Evaluate(expression, parameter, names) ==
    LET l == IF Len(names) > 0
             THEN NewLanguage(<<full>> \o Extensions(names))
             ELSE full
    IN  /\ op = "idle"
        /\ op' = "Evaluate"
        /\ expr' = expression
        /\ param' = parameter
        /\ opts' = names
        /\ lang' = l
        /\ tree' = NewEvaluable(l, expression).node
        /\ ret' = LanguageEvaluate(l, expression, parameter)
        /\ extended' = (extended \/ Len(names) > 0)
        /\ UNCHANGED <<full, args, sym, lname, accepts, rightEvaluated, tried>>

\* a caller takes Full(extensions...)
CallFull(names) ==
    /\ op = "idle"
    /\ op' = "Full"
    /\ opts' = names
    /\ lang' = Full(Extensions(names))
    /\ extended' = (extended \/ Len(names) > 0)
    /\ UNCHANGED <<full, expr, param, args, sym, lname, accepts, tree, ret,
                   rightEvaluated, tried>>

\* Language.NewEvaluable(expression) on the default language
Parse(expression) ==
    /\ op = "idle"
    /\ op' = "Parse"
    /\ expr' = expression
    /\ lname' = "Full"
    /\ tree' = NewEvaluable(Full(<<>>), expression).node
    /\ ret' = Fail(NewEvaluable(Full(<<>>), expression).err)
    /\ UNCHANGED <<full, param, opts, args, sym, accepts, lang, rightEvaluated,
                   tried, extended>>

\* an infix node of language name, symbol s, is evaluated; its operands
\* yield a and b
EvalInfix(name, s, a, b) ==
    LET l == LanguageNamed(name)
        r == InfixOpEval(l.infix[s], IF s \in DOMAIN l.short THEN l.short[s] ELSE "",
                         a, Ok(b))
    IN  /\ op = "idle"
        /\ s \in DOMAIN l.infix
        /\ op' = "EvalInfix"
        /\ lname' = name
        /\ sym' = s
        /\ args' = <<a, b>>
        /\ ret' = [val |-> r.val, err |-> r.err]
        /\ rightEvaluated' = r.right
        /\ UNCHANGED <<full, expr, param, opts, accepts, lang, tree, tried, extended>>

\* a prefix node of the default language, symbol s, is evaluated on v
EvalPrefix(s, v) ==
    LET l == Full(<<>>) IN
    /\ op = "idle"
    /\ s \in DOMAIN l.prefix
    /\ l.prefix[s].kind = "operator"
    /\ op' = "EvalPrefix"
    /\ lname' = "Full"
    /\ sym' = s
    /\ args' = <<v>>
    /\ ret' = ApplyPrefix(l.prefix[s].id, v)
    /\ UNCHANGED <<full, expr, param, opts, accepts, lang, tree, rightEvaluated,
                   tried, extended>>

\* the function registered as "date" in the default language is called
CallDate(arguments, acc) ==
    LET r == date(arguments, acc) IN
    /\ op = "idle"
    /\ "date" \in DOMAIN full.prefix
    /\ full.prefix["date"].id = "date"
    /\ op' = "date"
    /\ args' = arguments
    /\ accepts' = acc
    /\ ret' = [val |-> r.val, err |-> r.err]
    /\ tried' = r.tried
    /\ UNCHANGED <<full, expr, param, opts, sym, lname, lang, tree, rightEvaluated,
                   extended>>

\* the call returns: its caller drops what it was given and what it got
Return ==
    /\ op # "idle"
    /\ op' = "idle"
    /\ expr' = <<>>
    /\ param' = NoMap
    /\ opts' = <<>>
    /\ args' = <<>>
    /\ sym' = ""
    /\ lname' = ""
    /\ accepts' = {}
    /\ lang' = EmptyLanguage
    /\ tree' = ConstNode(Nil)
    /\ ret' = Ok(Nil)
    /\ rightEvaluated' = FALSE
    /\ tried' = <<>>
    /\ UNCHANGED <<full, extended>>

\* the binary operators of the default language, and the three-operand
\* expressions 1 o1 2 o2 3 over them
BinaryOps == DOMAIN fullLanguage.infix
ParseInputs ==
    {<<IntTok(<<"1">>), OpTok(o1), IntTok(<<"2">>), OpTok(o2), IntTok(<<"3">>)>> :
        o1 \in BinaryOps, o2 \in BinaryOps}

\* calls of the package-level entry points
Next ==
    \/ op = "idle" /\ \E e \in ExprInputs, p \in ParamInputs, names \in OptInputs :
          Evaluate(e, p, names)
    \/ op = "idle" /\ \E names \in OptInputs : CallFull(names)
    \/ Return
Spec == Init /\ [][Next]_vars

\* evaluations of single operator nodes
NextOperators ==
    \/ op = "idle" /\ \E name \in LanguageNames, s \in EvaluatedOps, a \in Values,
                          b \in RightValues : EvalInfix(name, s, a, b)
    \/ op = "idle" /\ \E s \in {"-", "~", "!"}, v \in Values : EvalPrefix(s, v)
    \/ Return
SpecOperators == Init /\ [][NextOperators]_vars

\* parses of three-operand expressions
NextParse ==
    \/ op = "idle" /\ \E e \in ParseInputs : Parse(e)
    \/ Return
SpecParse == Init /\ [][NextParse]_vars

\* calls of date()
NextDate ==
    \/ op = "idle" /\ \E arguments \in SeqsUpTo(DateArgs, MaxArgs), acc \in LayoutSets :
          CallDate(arguments, acc)
    \/ Return
SpecDate == Init /\ [][NextDate]_vars

(***************************************************************************)
(* Properties.                                                             *)
(***************************************************************************)
One == IntTok(<<"1">>)
Two == IntTok(<<"2">>)
Three == IntTok(<<"3">>)

\* no extension after the i-th registers key k in table t
LastToRegister(names, i, t, k) ==
    \A j \in (i + 1)..Len(names) : k \notin DOMAIN Extension(names[j])[t]
\* no extension registers key k in table t
Untouched(names, t, k) ==
    \A j \in 1..Len(names) : k \notin DOMAIN Extension(names[j])[t]
PlainTables == {"prefix", "short", "postfix", "prec"}

\* in language l, built from the default language and the extensions names,
\* every key holds the entry of the last extension that registers it, and
\* the entry of the default language when none does
OverridesInOrder(l, names) ==
    /\ \A t \in PlainTables :
          /\ \A i \in 1..Len(names) : \A k \in DOMAIN Extension(names[i])[t] :
                LastToRegister(names, i, t, k) => l[t][k] = Extension(names[i])[t][k]
          /\ \A k \in DOMAIN full[t] : Untouched(names, t, k) => l[t][k] = full[t][k]
    /\ \A i \in 1..Len(names) : \A s \in DOMAIN Extension(names[i]).infix :
          LastToRegister(names, i, "infix", s) =>
             l.infix[s][Len(l.infix[s])] = Extension(names[i]).infix[s][1]
    /\ \A s \in DOMAIN full.infix : Untouched(names, "infix", s) => l.infix[s] = full.infix[s]

\* C1: Evaluate(expression, parameter, extensions...) uses the default
\* language when no extension is passed and otherwise the union of the
\* default language and the extensions in the given order, in which an
\* extension's entry overrides the default's and a later extension's an
\* earlier one's; its result (value or error) is that of
\* Full(extensions...).Evaluate(expression, parameter).
C1_EvaluateIsFullEvaluate ==
    op = "Evaluate" =>
        /\ (opts = <<>> => lang = full)
        /\ lang = Full(Extensions(opts))
        /\ OverridesInOrder(lang, opts)
        /\ ret = LanguageEvaluate(Full(Extensions(opts)), expr, param)

\* two extensions register "+": 1 + 2 is evaluated by the later one
C1_Witness ==
    /\ op = "Evaluate"
    /\ opts = <<"plusFirst", "plusSecond">>
    /\ expr = <<One, Punct("+"), Two>>
    /\ ret = Ok(Num(2))

\* C9: no call of Evaluate or Full, with or without extensions, changes the
\* package-level default language: an Evaluate without extensions gives what
\* the initial default language gives, and Full() returns that language.
C9_DefaultLanguageUnchanged ==
    /\ full = fullLanguage
    /\ (op = "Evaluate" /\ opts = <<>> =>
            ret = LanguageEvaluate(fullLanguage, expr, param))
    /\ (op = "Full" /\ opts = <<>> => lang = fullLanguage)

\* after a call with extensions that override "+", 1 + 2 without extensions
\* is still 3
C9_Witness ==
    /\ extended
    /\ op = "Evaluate"
    /\ opts = <<>>
    /\ expr = <<One, Punct("+"), Two>>
    /\ ret = Ok(Num(3))

IsPlus(e) == Len(e) = 3 /\ e[2] = Punct("+")

\* C6: in the default language + applied to two numbers is their sum and
\* applied to two strings that are not numbers is their concatenation;
\* 1 + 2 * 3 is 7.
C6_PlusKeepsBothMeanings ==
    op = "Evaluate" /\ opts = <<>> =>
        /\ (IsPlus(expr) /\ expr[1].kind = "Int" /\ expr[3].kind = "Int" =>
                ret = Ok(Float(ParseDecimal(expr[1].text) + ParseDecimal(expr[3].text))))
        /\ (IsPlus(expr) /\ expr[1].kind = "Char" /\ expr[3].kind = "Char"
              /\ ~IsDecimal(expr[1].text) /\ ~IsDecimal(expr[3].text) =>
                ret = Ok(Str(expr[1].text \o expr[3].text)))
        /\ (expr = <<One, Punct("+"), Two, Punct("*"), Three>> => ret = Ok(Num(7)))

\* 'hi ' + 'Ada' is "hi Ada"
C6_Witness ==
    /\ op = "Evaluate"
    /\ opts = <<>>
    /\ expr = <<CharTok(<<"h", "i", " ">>), Punct("+"), CharTok(<<"A", "d", "a">>)>>
    /\ ret = Ok(Str(<<"h", "i", " ", "A", "d", "a">>))

\* C2: for ?? of the default language, a left value that is neither the
\* boolean false nor nil is the result and the right operand is not
\* evaluated; on false or nil the right operand is evaluated and its value
\* is the result.  Whenever the predicate stops, the strict evaluator gives
\* the same result for every right value.
C2_NullCoalesce ==
    op = "EvalInfix" /\ lname = "Full" /\ sym = "??" =>
        LET a == args[1]
            b == args[2]
        IN  /\ (a # Bool(FALSE) /\ a # Nil => ret = Ok(a) /\ ~rightEvaluated)
            /\ (a = Bool(FALSE) \/ a = Nil => ret = Ok(b) /\ rightEvaluated)
            /\ (~rightEvaluated =>
                    \A c \in Values : ApplyInfix(full.infix["??"], a, c) = ret)

\* 0 ?? b: 0 is neither false nor nil, so it is the result and b is not evaluated
C2_Witness ==
    /\ op = "EvalInfix" /\ lname = "Full" /\ sym = "??"
    /\ args[1] = Num(0)
    /\ ret = Ok(Num(0))
    /\ ~rightEvaluated

\* C3: Base == on (a, b): for an ordered sequence a, true iff some element
\* of a is structurally equal to b (false for the empty sequence); for any
\* other a, true iff a and b are structurally equal; never an error.
C3_BaseEquality ==
    op = "EvalInfix" /\ lname = "Base" /\ sym = "==" =>
        LET a == args[1]
            b == args[2]
        IN  /\ ret.err = ""
            /\ (a.t = "list" => ret.val = Bool(\E i \in 1..Len(a.l) : a.l[i] = b))
            /\ (a.t # "list" => ret.val = Bool(a = b))

\* [1, 2] == 2 is true although the two are not deep-equal
C3_Witness ==
    /\ op = "EvalInfix" /\ lname = "Base" /\ sym = "=="
    /\ args = <<List(<<Num(1), Num(2)>>), Num(2)>>
    /\ ret = Ok(Bool(TRUE))

\* C4: in a && b a left value that is the boolean false gives false without
\* evaluating b, in a || b a left value that is the boolean true gives true
\* without evaluating b; the strict boolean evaluator gives the same for
\* every right value coercible to bool.
C4_ShortCircuit ==
    op = "EvalInfix" /\ lname \in {"Full", "PropositionalLogic"} =>
        LET a == args[1]
            l == LanguageNamed(lname)
        IN  /\ (sym = "&&" /\ a = Bool(FALSE) =>
                  /\ ~rightEvaluated
                  /\ ret = Ok(Bool(FALSE))
                  /\ \A c \in Values : convertToBool(c).ok =>
                        ApplyInfix(l.infix["&&"], a, c) = ret)
            /\ (sym = "||" /\ a = Bool(TRUE) =>
                  /\ ~rightEvaluated
                  /\ ret = Ok(Bool(TRUE))
                  /\ \A c \in Values : convertToBool(c).ok =>
                        ApplyInfix(l.infix["||"], a, c) = ret)

\* false && [1]: the right operand, which no bool evaluator accepts, is not evaluated
C4_Witness ==
    /\ op = "EvalInfix" /\ lname = "Full" /\ sym = "&&"
    /\ args = <<Bool(FALSE), List(<<Num(1)>>)>>
    /\ ret = Ok(Bool(FALSE))
    /\ ~rightEvaluated

\* h, in halves, truncated toward zero is the whole number k
TruncatesTo(h, k) ==
    IF h >= 0 THEN 2 * k <= h /\ h < 2 * k + 2 ELSE h <= 2 * k /\ 2 * k - 2 < h

\* C8: -v and ~v fail with a nil value when v does not convert to a number
\* and !v when v does not convert to a bool; otherwise they give the negated
\* number, the complement of the number truncated to an integer (k and its
\* complement add up to -1), and the negated boolean, with no error.
C8_PrefixOperators ==
    op = "EvalPrefix" =>
        LET v == args[1]
            f == convertToFloat(v)
            b == convertToBool(v)
        IN  /\ (sym \in {"-", "~"} /\ ~f.ok => ret.err # "" /\ ret.val = Nil)
            /\ (sym = "!" /\ ~b.ok => ret.err # "" /\ ret.val = Nil)
            /\ (sym = "-" /\ f.ok =>
                    ret.err = "" /\ ret.val.t = "float64" /\ ret.val.n + f.f = 0)
            /\ (sym = "~" /\ f.ok =>
                    /\ ret.err = "" /\ ret.val.t = "float64"
                    /\ \E k \in -8..8 : TruncatesTo(f.f, k) /\ ret.val.n = 2 * (-1 - k))
            /\ (sym = "!" /\ b.ok => ret = Ok(Bool(~b.b)))

\* ~1.5 is -2
C8_Witness ==
    /\ op = "EvalPrefix" /\ sym = "~"
    /\ args = <<Float(3)>>
    /\ ret = Ok(Num(-2))

\* C10: Base != is the complement of Base ==: a != b is true iff a == b is
\* false, also when a is an ordered sequence.
C10_NeIsComplementOfEq ==
    op = "EvalInfix" /\ lname = "Base" /\ sym = "!=" =>
        ret.val = Bool(ApplyInfix(base.infix["=="], args[1], args[2]).val = Bool(FALSE))

\* the binary operators and their precedences as the table states them
StatedPrecedence(s) ==
    CASE s = "??" -> 0
      [] s = "||" -> 20
      [] s = "&&" -> 21
      [] s \in {"==", "!=", ">", ">=", "<", "<=", "=~", "!~", "in"} -> 40
      [] s \in {"^", "&", "|"} -> 60
      [] s \in {"<<", ">>"} -> 90
      [] s \in {"+", "-"} -> 120
      [] s \in {"*", "/", "%"} -> 150
      [] s = "**" -> 200
StatedOps ==
    {"??", "||", "&&", "==", "!=", ">", ">=", "<", "<=", "=~", "!~", "in", "^", "&", "|",
     "<<", ">>", "+", "-", "*", "/", "%", "**"}

\* C5: the default language gives the binary operators the stated
\* precedences, and in a o1 b o2 c the operator of higher precedence takes b:
\* a o1 (b o2 c) when o2 binds tighter, (a o1 b) o2 c when o1 does;
\* 1 + 2 * 3 evaluates to 7.
C5_PrecedenceDecidesGrouping ==
    /\ DOMAIN full.infix = StatedOps
    /\ \A s \in StatedOps : full.prec[s] = StatedPrecedence(s)
    /\ op = "Parse" /\ Len(expr) = 5 =>
        LET o1 == expr[2].sym
            o2 == expr[4].sym
            a == ConstNode(Num(1))
            b == ConstNode(Num(2))
            c == ConstNode(Num(3))
        IN  /\ ret.err = ""
            /\ (StatedPrecedence(o2) > StatedPrecedence(o1) =>
                    tree = InfixNode(full, o1, a, InfixNode(full, o2, b, c)))
            /\ (StatedPrecedence(o1) > StatedPrecedence(o2) =>
                    tree = InfixNode(full, o2, InfixNode(full, o1, a, b), c))
            /\ (o1 = "+" /\ o2 = "*" => EvalNode(tree, NoMap) = Ok(Num(7)))

\* 1 + 2 * 3 is parsed as 1 + (2 * 3)
C5_Witness ==
    /\ op = "Parse"
    /\ expr = <<One, Punct("+"), Two, Punct("*"), Three>>
    /\ tree.op = "+"
    /\ tree.kids[2].op = "*"
    /\ EvalNode(tree, NoMap) = Ok(Num(7))

\* the least layout of a non-empty set
FirstOf(acc) == CHOOSE m \in acc : \A k \in acc : m <= k

\* C7: date() fails, with no value, on an argument count other than one, on
\* a single argument that is no string, and on a string no layout accepts;
\* otherwise it hands the layouts to the host in the declared order up to
\* the first that accepts the string, and returns the time parsed by that one.
C7_DateFirstMatchWins ==
    /\ Len(Layouts) = 14
    /\ SubSeq(Layouts, 1, 6) =
          <<"ANSIC", "UnixDate", "RubyDate", "Kitchen", "RFC3339", "RFC3339Nano">>
    /\ op = "date" =>
        /\ (Len(args) # 1 => ret.err # "" /\ ret.val = Nil /\ tried = <<>>)
        /\ (Len(args) = 1 =>
              /\ (args[1].t # "string" => ret.err # "" /\ ret.val = Nil /\ tried = <<>>)
              /\ (args[1].t = "string" /\ accepts = {} =>
                    /\ ret.err # "" /\ ret.val = Nil
                    /\ tried = [i \in 1..Len(Layouts) |-> i])
              /\ (args[1].t = "string" /\ accepts # {} =>
                    /\ ret = Ok(Time(FirstOf(accepts)))
                    /\ tried = [i \in 1..FirstOf(accepts) |-> i]))

\* a string that RFC3339 and RFC3339Nano both accept is parsed by RFC3339
C7_Witness ==
    /\ op = "date"
    /\ Len(args) = 1 /\ args[1].t = "string"
    /\ accepts = {5, 6}
    /\ ret = Ok(Time(5))
    /\ tried = <<1, 2, 3, 4, 5>>

====
